---- MODULE Spec2Model ----
\* Model of the stream session of internal/stream (Stream, newStream, Stop,
\* retry, receive, getMessage): one background goroutine running retry(), the
\* lifecycle caller running Stop(), a consumer receiving from Messages and a
\* server answering requests and emitting body lines.
EXTENDS Integers, Sequences, FiniteSets, TLC

\* ---------------------------------------------------------------- bounds
\* Requests the server answers in one session.
MaxRequests == 3
\* Lines the server emits in one session (over all bodies).
MaxLines == 4
\* Stop() calls the lifecycle caller makes.
MaxStopCalls == 2

\* ------------------------------------------------------------- constants
\* s.body before the first response: the nil io.Closer.
NoBody == 0
\* A half-written interface value of s.body (type word and data word from
\* different stores): what an unsynchronised read can see during the store.
TornBody == -1
\* backoff.Stop, the sentinel NextBackOff returns to give up.
BackoffStop == -1
StatusOK == 200
StatusServiceUnavailable == 503
StatusTooManyRequests == 429
StatusEnhanceYourCalm == 420
\* A representative of every status the switch sends to its default case.
StatusOther == 404
Statuses ==
  {StatusOK, StatusServiceUnavailable, StatusTooManyRequests,
   StatusEnhanceYourCalm, StatusOther}

\* retry, lines 127-143: the case of the switch a status code falls under,
\* named by the first code of the case; 420 and 429 share one case.
SwitchCase(st) ==
  IF st = StatusEnhanceYourCalm THEN StatusTooManyRequests ELSE st

\* The waits of the two policies, in the order NextBackOff yields them; after
\* the last one the policy yields BackoffStop.
StandardWaits == <<1, 2>>
AggressiveWaits == <<2, 4>>

\* ----------------------------------------------------------------- lines
\* A line of a response body: a keep-alive, a JSON object whose data.id is
\* id, or bytes that are not JSON.
EmptyLine == [kind |-> "empty", id |-> 0]
MalformedLine == [kind |-> "malformed", id |-> 0]
PayloadLine(i) == [kind |-> "payload", id |-> i]

\* A value sent on Messages: a *StreamData, nil or pointing at a decoded tweet.
NilMessage == [isNil |-> TRUE, tweet |-> 0]
StreamData(i) == [isNil |-> FALSE, tweet |-> i]

\* getMessage: json.Unmarshal into a StreamData; (nil, err) on malformed input.
getMessage(token) ==
  IF token.kind = "payload" THEN StreamData(token.id) ELSE NilMessage

VARIABLES
  taskPc,       \* position of the retry goroutine
  nreq,         \* requests issued so far; the current response is number nreq
  status,       \* resp.StatusCode of the current response
  open,         \* response bodies not closed yet
  wait,         \* retry's local `wait`
  expIdx,       \* waits the Standard policy has yielded since its last Reset
  aggIdx,       \* waits the Aggressive policy has yielded since its last Reset
  cur,          \* receive's local `data`
  msg,          \* receive's local `msg`
  bodyMem,      \* s.body as memory shows it to the goroutine calling Stop
  bodyBuf,      \* retry's store to s.body not yet visible to other goroutines
  doneClosed,   \* s.done is closed
  msgClosed,    \* s.Messages is closed
  group,        \* counter of s.group
  stopPc,       \* position of the goroutine calling Stop
  stopCalls,    \* Stop() calls begun
  exitedAtStop, \* the goroutine was over when the first Stop() call began
  crashed,      \* the process has died of an unrecovered panic
  taskPanic,    \* retry is unwinding from panic(err)
  stopPanic,    \* Stop panicked
  doErr,        \* client.Do returned an error
  sendPanic,    \* a send on the closed Messages channel panicked
  closeCount,   \* close(s.Messages) calls executed
  read,         \* lines readNext has returned
  received,     \* messages the consumer has received
  slept,        \* waits handed to sleepOrDone
  answers,      \* switch cases of the responses, in the order received
  reqAtStop     \* requests issued when the first Stop() closed done

taskVars == <<taskPc, nreq, status, open, wait, expIdx, aggIdx, cur, msg>>
memVars == <<bodyMem, bodyBuf>>
syncVars == <<doneClosed, msgClosed, group>>
stopVars == <<stopPc, stopCalls, exitedAtStop>>
failVars == <<crashed, taskPanic, stopPanic, doErr, sendPanic>>
histVars == <<closeCount, read, received, slept, answers, reqAtStop>>
vars == <<taskVars, memVars, syncVars, stopVars, failVars, histVars>>

\* newStream: the state when Connect returns.
Init ==
  /\ taskPc = "loop" /\ nreq = 0 /\ status = 0 /\ open = {}
  /\ wait = 0 /\ expIdx = 0 /\ aggIdx = 0
  /\ cur = EmptyLine /\ msg = NilMessage
  /\ bodyMem = NoBody /\ bodyBuf = NoBody
  /\ doneClosed = FALSE /\ msgClosed = FALSE /\ group = 1
  /\ stopPc = "idle" /\ stopCalls = 0 /\ exitedAtStop = FALSE
  /\ crashed = FALSE /\ taskPanic = FALSE /\ stopPanic = FALSE /\ doErr = FALSE
  /\ sendPanic = FALSE
  /\ closeCount = 0 /\ read = <<>> /\ received = <<>> /\ slept = <<>>
  /\ answers = <<>> /\ reqAtStop = 0

\* The lines the server can send next: a keep-alive, bytes that are not JSON,
\* or the next tweet (the server numbers the tweets of a session 1, 2, ...).
NextLines ==
  {EmptyLine, MalformedLine,
   PayloadLine(1 + Cardinality({i \in DOMAIN read : read[i].kind = "payload"}))}

\* stopped(done): a non-blocking receive from the done channel.
stopped == doneClosed

\* NextBackOff of a policy that has yielded idx waits since its last Reset.
NextBackOff(waits, idx) ==
  IF idx < Len(waits) THEN waits[idx + 1] ELSE BackoffStop

\* The store to s.body has reached memory.
Drained == bodyBuf = NoBody

\* ------------------------------------------------------ the retry goroutine
\* RetryLoop without the condition of line 118: the loop goes on to the next
\* request whether done is closed or not.
RetryLoopIgnoresDone ==
  /\ ~crashed /\ taskPc = "loop" /\ Drained
  /\ nreq < MaxRequests /\ taskPc' = "do"
  /\ UNCHANGED <<nreq, status, open, wait, expIdx, aggIdx, cur, msg>>
  /\ UNCHANGED <<memVars, syncVars, stopVars, failVars, histVars>>

\* RetryLoop with the condition evaluated on entry only: once a first
\* request has been issued the loop no longer looks at done.
RetryLoopChecksOnce ==
  /\ ~crashed /\ taskPc = "loop" /\ Drained
  /\ IF stopped /\ nreq = 0
       THEN taskPc' = "deferBodies" /\ UNCHANGED nreq
       ELSE nreq < MaxRequests /\ taskPc' = "do" /\ UNCHANGED nreq
  /\ UNCHANGED <<status, open, wait, expIdx, aggIdx, cur, msg>>
  /\ UNCHANGED <<memVars, syncVars, stopVars, failVars, histVars>>

\* retry, line 118: the loop condition !stopped(s.done). A closed done channel
\* ends the loop and the deferred calls run.
RetryLoop ==
  /\ ~crashed /\ taskPc = "loop" /\ Drained
  /\ IF stopped
       THEN taskPc' = "deferBodies" /\ UNCHANGED nreq
       ELSE nreq < MaxRequests /\ taskPc' = "do" /\ UNCHANGED nreq
  /\ UNCHANGED <<status, open, wait, expIdx, aggIdx, cur, msg>>
  /\ UNCHANGED <<memVars, syncVars, stopVars, failVars, histVars>>

\* retry, lines 119-123: client.Do fails; panic(err) starts unwinding retry,
\* which runs its deferred calls.
ClientDoError ==
  /\ ~crashed /\ taskPc = "do"
  /\ doErr' = TRUE /\ taskPanic' = TRUE
  /\ taskPc' = "deferBodies"
  /\ UNCHANGED <<nreq, status, open, wait, expIdx, aggIdx, cur, msg>>
  /\ UNCHANGED <<memVars, syncVars, stopVars, histVars>>
  /\ UNCHANGED <<crashed, stopPanic, sendPanic>>

\* retry, lines 119-125: client.Do returns a response with status st and an
\* open body; its Close is deferred.
ClientDoResponse(st) ==
  /\ ~crashed /\ taskPc = "do"
  /\ nreq' = nreq + 1 /\ status' = st
  /\ open' = open \cup {nreq + 1}
  /\ answers' = Append(answers, SwitchCase(st))
  /\ taskPc' = "store"
  /\ UNCHANGED <<wait, expIdx, aggIdx, cur, msg>>
  /\ UNCHANGED <<memVars, syncVars, stopVars, failVars>>
  /\ UNCHANGED <<closeCount, read, received, slept, reqAtStop>>

ClientDo == ClientDoError \/ \E st \in Statuses : ClientDoResponse(st)

\* retry, line 126: s.body = resp.Body, a plain store to a field Stop reads
\* with no synchronisation; it sits in the goroutine's store buffer first.
StoreBody ==
  /\ ~crashed /\ taskPc = "store" /\ Drained
  /\ bodyBuf' = nreq
  /\ taskPc' = "switch"
  /\ UNCHANGED <<nreq, status, open, wait, expIdx, aggIdx, cur, msg, bodyMem>>
  /\ UNCHANGED <<syncVars, stopVars, failVars, histVars>>

\* The store of line 126 reaches memory. An interface value is two words: the
\* first store over nil is seen half-written before it is seen whole.
DrainStoreBuffer ==
  /\ ~crashed /\ ~Drained
  /\ IF bodyMem = NoBody
       THEN bodyMem' = TornBody /\ UNCHANGED bodyBuf
       ELSE bodyMem' = bodyBuf /\ bodyBuf' = NoBody
  /\ UNCHANGED <<taskVars, syncVars, stopVars, failVars, histVars>>

\* Switch with one policy for every retryable status: the 420/429 case calls
\* expBackOff.NextBackOff() as the 503 case does.
SwitchOnePolicy ==
  /\ ~crashed /\ taskPc = "switch"
  /\ status \in {StatusOK, StatusServiceUnavailable, StatusTooManyRequests,
                 StatusEnhanceYourCalm}
  /\ IF status = StatusOK
       THEN taskPc' = "recvLoop" /\ UNCHANGED <<wait, expIdx, aggIdx>>
       ELSE /\ wait' = NextBackOff(StandardWaits, expIdx)
            /\ expIdx' = IF expIdx < Len(StandardWaits) THEN expIdx + 1 ELSE expIdx
            /\ taskPc' = "closeResp" /\ UNCHANGED aggIdx
  /\ UNCHANGED <<nreq, status, open, cur, msg>>
  /\ UNCHANGED <<memVars, syncVars, stopVars, failVars, histVars>>

\* retry, lines 127-144: the switch on resp.StatusCode. The default case
\* closes the body and returns.
Switch ==
  /\ ~crashed /\ taskPc = "switch"
  /\ status \in {StatusOK, StatusServiceUnavailable, StatusTooManyRequests,
                 StatusEnhanceYourCalm}
  /\ CASE status = StatusOK ->
            taskPc' = "recvLoop" /\ UNCHANGED <<wait, expIdx, aggIdx>>
       [] status = StatusServiceUnavailable ->
            /\ wait' = NextBackOff(StandardWaits, expIdx)
            /\ expIdx' = IF expIdx < Len(StandardWaits) THEN expIdx + 1 ELSE expIdx
            /\ taskPc' = "closeResp" /\ UNCHANGED aggIdx
       [] OTHER ->
            /\ wait' = NextBackOff(AggressiveWaits, aggIdx)
            /\ aggIdx' = IF aggIdx < Len(AggressiveWaits) THEN aggIdx + 1 ELSE aggIdx
            /\ taskPc' = "closeResp" /\ UNCHANGED expIdx
  /\ UNCHANGED <<nreq, status, open, cur, msg>>
  /\ UNCHANGED <<memVars, syncVars, stopVars, failVars, histVars>>

\* SwitchDefault treating any other status like a 503: it takes a wait from
\* the standard policy and goes on to the end of the cycle.
SwitchDefaultRetries ==
  /\ ~crashed /\ taskPc = "switch" /\ Drained
  /\ status \notin {StatusOK, StatusServiceUnavailable, StatusTooManyRequests,
                    StatusEnhanceYourCalm}
  /\ wait' = NextBackOff(StandardWaits, expIdx)
  /\ expIdx' = IF expIdx < Len(StandardWaits) THEN expIdx + 1 ELSE expIdx
  /\ taskPc' = "closeResp"
  /\ UNCHANGED <<nreq, status, open, aggIdx, cur, msg>>
  /\ UNCHANGED <<memVars, syncVars, stopVars, failVars, histVars>>

\* retry, lines 140-143: any other status closes the body and returns.
SwitchDefault ==
  /\ ~crashed /\ taskPc = "switch" /\ Drained
  /\ status \notin {StatusOK, StatusServiceUnavailable, StatusTooManyRequests,
                    StatusEnhanceYourCalm}
  /\ open' = open \ {nreq}
  /\ taskPc' = "deferBodies"
  /\ UNCHANGED <<nreq, status, wait, expIdx, aggIdx, cur, msg>>
  /\ UNCHANGED <<memVars, syncVars, stopVars, failVars, histVars>>

\* receive, line 159: the loop condition !stopped(s.done).
ReceiveLoop ==
  /\ ~crashed /\ taskPc = "recvLoop"
  /\ taskPc' = IF stopped THEN "reset" ELSE "read"
  /\ UNCHANGED <<nreq, status, open, wait, expIdx, aggIdx, cur, msg>>
  /\ UNCHANGED <<memVars, syncVars, stopVars, failVars, histVars>>

\* ReadLine without the keep-alive test of lines 164-167: an empty line goes
\* on to the select like any other.
ReadLineNoSkip(line) ==
  /\ ~crashed /\ taskPc = "read" /\ Drained
  /\ nreq \in open /\ Len(read) < MaxLines
  /\ cur' = line /\ read' = Append(read, line)
  /\ taskPc' = "select"
  /\ UNCHANGED <<nreq, status, open, wait, expIdx, aggIdx, msg>>
  /\ UNCHANGED <<memVars, syncVars, stopVars, failVars>>
  /\ UNCHANGED <<closeCount, received, slept, answers, reqAtStop>>

\* receive, lines 160-167: readNext returns a line the server sent; an empty
\* line is a keep-alive and the loop continues.
ReadLine(line) ==
  /\ ~crashed /\ taskPc = "read" /\ Drained
  /\ nreq \in open /\ Len(read) < MaxLines
  /\ cur' = line /\ read' = Append(read, line)
  /\ taskPc' = IF line = EmptyLine THEN "recvLoop" ELSE "select"
  /\ UNCHANGED <<nreq, status, open, wait, expIdx, aggIdx, msg>>
  /\ UNCHANGED <<memVars, syncVars, stopVars, failVars>>
  /\ UNCHANGED <<closeCount, received, slept, answers, reqAtStop>>

\* ReadEOF ending the goroutine: on the read error retry returns instead of
\* going on with the cycle.
ReadEOFStops ==
  /\ ~crashed /\ taskPc = "read" /\ Drained
  /\ nreq \in open
  /\ taskPc' = "deferBodies"
  /\ UNCHANGED <<nreq, status, open, wait, expIdx, aggIdx, cur, msg>>
  /\ UNCHANGED <<memVars, syncVars, stopVars, failVars, histVars>>

\* receive, lines 160-163: the server ends the body or the connection fails;
\* readNext returns an error and receive returns.
ReadEOF ==
  /\ ~crashed /\ taskPc = "read" /\ Drained
  /\ nreq \in open
  /\ taskPc' = "reset"
  /\ UNCHANGED <<nreq, status, open, wait, expIdx, aggIdx, cur, msg>>
  /\ UNCHANGED <<memVars, syncVars, stopVars, failVars, histVars>>

\* receive, lines 160-163: the body was closed under the reader (by Stop);
\* readNext returns an error and receive returns.
ReadClosed ==
  /\ ~crashed /\ taskPc = "read" /\ Drained
  /\ nreq \notin open
  /\ taskPc' = "reset"
  /\ UNCHANGED <<nreq, status, open, wait, expIdx, aggIdx, cur, msg>>
  /\ UNCHANGED <<memVars, syncVars, stopVars, failVars, histVars>>

\* ReceiveSelect treating getMessage's error as fatal: receive returns on a
\* line that does not decode.
ReceiveSelectFatal ==
  /\ ~crashed /\ taskPc = "select"
  /\ IF stopped \/ getMessage(cur).isNil
       THEN taskPc' = "reset" /\ cur' = EmptyLine /\ UNCHANGED msg
       ELSE taskPc' = "send" /\ msg' = getMessage(cur) /\ UNCHANGED cur
  /\ UNCHANGED <<nreq, status, open, wait, expIdx, aggIdx>>
  /\ UNCHANGED <<memVars, syncVars, stopVars, failVars, histVars>>

\* receive, lines 168-174: the select. A closed done channel returns; the
\* default case decodes the line, dropping getMessage's error.
ReceiveSelect ==
  /\ ~crashed /\ taskPc = "select"
  /\ IF stopped
       THEN taskPc' = "reset" /\ cur' = EmptyLine /\ UNCHANGED msg
       ELSE taskPc' = "send" /\ msg' = getMessage(cur) /\ UNCHANGED cur
  /\ UNCHANGED <<nreq, status, open, wait, expIdx, aggIdx>>
  /\ UNCHANGED <<memVars, syncVars, stopVars, failVars, histVars>>

\* receive, line 175: s.Messages <- msg, an unbuffered send: the step happens
\* when the consumer receives, and the goroutine is blocked until it does. A
\* send on a closed channel panics. The iteration ends and its locals data
\* and msg go out of scope.
SendMessage ==
  /\ ~crashed /\ taskPc = "send"
  /\ IF msgClosed
       THEN crashed' = TRUE /\ sendPanic' = TRUE /\ UNCHANGED received
       ELSE received' = Append(received, msg) /\ UNCHANGED <<crashed, sendPanic>>
  /\ taskPc' = "recvLoop"
  /\ cur' = EmptyLine /\ msg' = NilMessage
  /\ UNCHANGED <<nreq, status, open, wait, expIdx, aggIdx>>
  /\ UNCHANGED <<memVars, syncVars, stopVars, taskPanic, stopPanic, doErr>>
  /\ UNCHANGED <<closeCount, read, slept, answers, reqAtStop>>

\* ResetBackoffs without line 132: only the standard policy is reset.
ResetBackoffsStandardOnly ==
  /\ ~crashed /\ taskPc = "reset"
  /\ expIdx' = 0
  /\ taskPc' = "closeResp"
  /\ UNCHANGED <<nreq, status, open, wait, aggIdx, cur, msg>>
  /\ UNCHANGED <<memVars, syncVars, stopVars, failVars, histVars>>

\* retry, lines 131-132: receive has returned; both policies are reset.
ResetBackoffs ==
  /\ ~crashed /\ taskPc = "reset"
  /\ expIdx' = 0 /\ aggIdx' = 0
  /\ taskPc' = "closeResp"
  /\ UNCHANGED <<nreq, status, open, wait, cur, msg>>
  /\ UNCHANGED <<memVars, syncVars, stopVars, failVars, histVars>>

\* CloseResp without the test of lines 147-149: the stop sentinel is handed
\* to sleepOrDone like any other wait and the loop goes on.
CloseRespIgnoresStop ==
  /\ ~crashed /\ taskPc = "closeResp" /\ Drained
  /\ open' = open \ {nreq}
  /\ taskPc' = "sleep" /\ slept' = Append(slept, wait)
  /\ UNCHANGED <<nreq, status, wait, expIdx, aggIdx, cur, msg>>
  /\ UNCHANGED <<memVars, syncVars, stopVars, failVars>>
  /\ UNCHANGED <<closeCount, read, received, answers, reqAtStop>>

\* CloseResp without line 146: the body is left to the deferred Close of
\* line 125, which runs when retry returns.
CloseRespLeavesBody ==
  /\ ~crashed /\ taskPc = "closeResp" /\ Drained
  /\ IF wait = BackoffStop
       THEN taskPc' = "deferBodies" /\ UNCHANGED slept
       ELSE taskPc' = "sleep" /\ slept' = Append(slept, wait)
  /\ UNCHANGED <<nreq, status, open, wait, expIdx, aggIdx, cur, msg>>
  /\ UNCHANGED <<memVars, syncVars, stopVars, failVars>>
  /\ UNCHANGED <<closeCount, read, received, answers, reqAtStop>>

\* retry, lines 146-150: close the response body; return on backoff.Stop,
\* otherwise call sleepOrDone(wait, s.done).
CloseResp ==
  /\ ~crashed /\ taskPc = "closeResp" /\ Drained
  /\ open' = open \ {nreq}
  /\ IF wait = BackoffStop
       THEN taskPc' = "deferBodies" /\ UNCHANGED slept
       ELSE taskPc' = "sleep" /\ slept' = Append(slept, wait)
  /\ UNCHANGED <<nreq, status, wait, expIdx, aggIdx, cur, msg>>
  /\ UNCHANGED <<memVars, syncVars, stopVars, failVars>>
  /\ UNCHANGED <<closeCount, read, received, answers, reqAtStop>>

\* sleepOrDone: the interval elapses. The iteration of retry's loop ends and
\* its local resp goes out of scope.
SleepElapsed ==
  /\ ~crashed /\ taskPc = "sleep"
  /\ taskPc' = "loop" /\ status' = 0
  /\ UNCHANGED <<nreq, open, wait, expIdx, aggIdx, cur, msg>>
  /\ UNCHANGED <<memVars, syncVars, stopVars, failVars, histVars>>

\* sleepOrDone: the done channel is closed and the sleep ends early.
SleepDone ==
  /\ ~crashed /\ taskPc = "sleep" /\ doneClosed
  /\ taskPc' = "loop" /\ status' = 0
  /\ UNCHANGED <<nreq, open, wait, expIdx, aggIdx, cur, msg>>
  /\ UNCHANGED <<memVars, syncVars, stopVars, failVars, histVars>>

\* retry, line 125: the deferred resp.Body.Close() calls, one per response,
\* run first (deferred calls run last-in first-out).
DeferBodyClose ==
  /\ ~crashed /\ taskPc = "deferBodies" /\ Drained
  /\ open' = {}
  /\ taskPc' = "deferDone"
  /\ UNCHANGED <<nreq, status, wait, expIdx, aggIdx, cur, msg>>
  /\ UNCHANGED <<memVars, syncVars, stopVars, failVars, histVars>>

\* retry, line 115: the deferred s.group.Done().
DeferGroupDone ==
  /\ ~crashed /\ taskPc = "deferDone"
  /\ group' = group - 1
  /\ taskPc' = "deferClose"
  /\ UNCHANGED <<nreq, status, open, wait, expIdx, aggIdx, cur, msg>>
  /\ UNCHANGED <<memVars, doneClosed, msgClosed, stopVars, failVars, histVars>>

\* retry, line 114: the deferred close(s.Messages), the last deferred call;
\* the goroutine is over when it returns. Closing a closed channel panics.
DeferCloseMessages ==
  /\ ~crashed /\ taskPc = "deferClose"
  /\ msgClosed' = TRUE /\ closeCount' = closeCount + 1
  /\ crashed' = msgClosed
  /\ taskPc' = "exited"
  /\ UNCHANGED <<nreq, status, open, wait, expIdx, aggIdx, cur, msg>>
  /\ UNCHANGED <<memVars, doneClosed, group, stopVars>>
  /\ UNCHANGED <<taskPanic, stopPanic, doErr, sendPanic>>
  /\ UNCHANGED <<read, received, slept, answers, reqAtStop>>

\* The panic of line 122 was not recovered: once retry's deferred calls have
\* run, the runtime ends the process.
RuntimeFatal ==
  /\ ~crashed /\ taskPc = "exited" /\ taskPanic
  /\ crashed' = TRUE
  /\ UNCHANGED <<taskVars, memVars, syncVars, stopVars, histVars>>
  /\ UNCHANGED <<taskPanic, stopPanic, doErr, sendPanic>>

\* ------------------------------------------------------------------ Stop
\* Stop, line 97: the lifecycle caller calls Stop(), whose first statement is
\* close(s.done); a later call follows the return of the one before. Closing
\* a closed channel panics, and a panic of the caller's goroutine ends the
\* process.
StopCloseDone ==
  /\ ~crashed /\ stopPc \in {"idle", "returned"}
  /\ stopCalls < MaxStopCalls
  /\ stopCalls' = stopCalls + 1
  /\ exitedAtStop' = IF stopCalls = 0 THEN taskPc = "exited" ELSE exitedAtStop
  /\ reqAtStop' = IF stopCalls = 0 THEN nreq ELSE reqAtStop
  /\ IF doneClosed
       THEN /\ stopPanic' = TRUE /\ crashed' = TRUE
            /\ UNCHANGED <<doneClosed, stopPc>>
       ELSE /\ doneClosed' = TRUE /\ stopPc' = "closeBody"
            /\ UNCHANGED <<stopPanic, crashed>>
  /\ UNCHANGED <<taskVars, memVars, msgClosed, group>>
  /\ UNCHANGED <<taskPanic, doErr, sendPanic>>
  /\ UNCHANGED <<closeCount, read, received, slept, answers>>

\* Stop, lines 101-103: read s.body with no synchronisation and close what it
\* holds. A half-written value reads as nil (type word not written yet) or as
\* a typed nil pointer, whose Close dereferences nil and panics.
StopCloseBody ==
  /\ ~crashed /\ stopPc = "closeBody"
  /\ \/ /\ bodyMem = NoBody
        /\ stopPc' = "wait"
        /\ UNCHANGED <<open, stopPanic, crashed>>
     \/ /\ bodyMem = TornBody
        /\ stopPc' = "wait"
        /\ UNCHANGED <<open, stopPanic, crashed>>
     \/ /\ bodyMem = TornBody
        /\ stopPanic' = TRUE /\ crashed' = TRUE
        /\ UNCHANGED <<open, stopPc>>
     \/ /\ bodyMem \notin {NoBody, TornBody}
        /\ open' = open \ {bodyMem}
        /\ stopPc' = "wait"
        /\ UNCHANGED <<stopPanic, crashed>>
  /\ UNCHANGED <<taskPc, nreq, status, wait, expIdx, aggIdx, cur, msg>>
  /\ UNCHANGED <<memVars, syncVars, stopCalls, exitedAtStop, histVars>>
  /\ UNCHANGED <<taskPanic, doErr, sendPanic>>

\* StopWait with Stop closing the Messages channel itself once the wait is
\* over.
StopWaitClosesMessages ==
  /\ ~crashed /\ stopPc = "wait"
  /\ group = 0
  /\ stopPc' = "returned"
  /\ msgClosed' = TRUE /\ closeCount' = closeCount + 1
  /\ UNCHANGED <<taskVars, memVars, doneClosed, group, failVars>>
  /\ UNCHANGED <<stopCalls, exitedAtStop>>
  /\ UNCHANGED <<read, received, slept, answers, reqAtStop>>

\* Stop, line 105: s.group.Wait() returns once the counter is zero.
StopWait ==
  /\ ~crashed /\ stopPc = "wait"
  /\ group = 0
  /\ stopPc' = "returned"
  /\ UNCHANGED <<taskVars, memVars, syncVars, failVars, histVars>>
  /\ UNCHANGED <<stopCalls, exitedAtStop>>

\* ---------------------------------------------------------- specification
\* The steps of the retry goroutine that need nothing from the consumer, and
\* nothing from the server beyond an answer to the request.
TaskStep ==
  \/ RetryLoop \/ ClientDo \/ StoreBody \/ Switch \/ SwitchDefault
  \/ ReceiveLoop \/ ReadClosed \/ ReceiveSelect
  \/ ResetBackoffs \/ CloseResp \/ SleepElapsed \/ SleepDone
  \/ DeferBodyClose \/ DeferGroupDone \/ DeferCloseMessages

\* The steps of a Stop() call once it has begun.
StopStep == StopCloseBody \/ StopWait

Next ==
  \/ RetryLoop
  \/ ClientDo
  \/ StoreBody
  \/ DrainStoreBuffer
  \/ Switch
  \/ SwitchDefault
  \/ ReceiveLoop
  \/ \E line \in NextLines : ReadLine(line)
  \/ ReadEOF
  \/ ReadClosed
  \/ ReceiveSelect
  \/ SendMessage
  \/ ResetBackoffs
  \/ CloseResp
  \/ SleepElapsed
  \/ SleepDone
  \/ DeferBodyClose
  \/ DeferGroupDone
  \/ DeferCloseMessages
  \/ RuntimeFatal
  \/ StopCloseDone
  \/ StopCloseBody
  \/ StopWait

Spec == Init /\ [][Next]_vars

\* The scheduler runs every goroutine that can take a step, stores reach
\* memory, timers fire and the runtime ends a panicking process. Nothing
\* obliges the server to send a line or end a body, the consumer to receive,
\* or the caller to call Stop.
FairSpec ==
  /\ Spec
  /\ WF_vars(TaskStep)
  /\ WF_vars(StopStep)
  /\ WF_vars(DrainStoreBuffer)
  /\ WF_vars(RuntimeFatal)

\* ------------------------------------------------------------- properties
\* The lines of a sequence the receive loop does not skip.
NonEmpty(ls) == SelectSeq(ls, LAMBDA l : l.kind # "empty")
\* The well-formed payload lines of a sequence.
Payloads(ls) == SelectSeq(ls, LAMBDA l : l.kind = "payload")
\* The message each payload line of a sequence stands for.
Expected(ls) == [i \in DOMAIN ls |-> [isNil |-> FALSE, tweet |-> ls[i].id]]
\* The messages of a sequence that carry a tweet.
Tweets(ms) == SelectSeq(ms, LAMBDA m : ~m.isNil)
\* The lines read whose iteration of the receive loop is over.
Processed ==
  IF taskPc \in {"select", "send"} THEN SubSeq(read, 1, Len(read) - 1) ELSE read

\* C1: a Stop() that has closed done while the goroutine is anywhere between
\* the response to a 200 request and the blocked read of its body (body handle
\* not stored yet, stored, done checked, read started) eventually returns,
\* though the server sends no further line, unless the process dies. Stated
\* for the first response of a session, before any line of it is read.
C1_StopUnblocksRead ==
  (/\ stopCalls = 1 /\ stopPc = "closeBody" /\ status = StatusOK
   /\ nreq = 1 /\ read = <<>>
   /\ taskPc \in {"store", "switch", "recvLoop", "read"})
    ~> (stopPc = "returned" \/ crashed)

\* C2: whenever Stop() has returned, the Messages channel is closed (stated
\* for the sessions in which the goroutine does not panic).
C2_ClosedWhenStopReturns == (stopPc = "returned" /\ ~taskPanic) => msgClosed

\* C3: a second Stop() does not panic and the Messages channel is not closed
\* a second time (stated for the sessions in which the goroutine does not
\* panic).
C3_SecondStopSafe ==
  (stopCalls >= 2 /\ ~taskPanic) => (~stopPanic /\ closeCount <= 1)

\* C4: when done is closed and Stop() waits while the goroutine is blocked
\* sending a message that the consumer never receives, the goroutine gives the
\* message up and Stop() returns. Stated for the first response of a session.
C4_SendCancellable ==
  \A n \in 0..MaxLines :
    (/\ taskPc = "send" /\ doneClosed /\ stopPc = "wait" /\ nreq = 1
     /\ Len(received) = n)
      ~> (stopPc = "returned" \/ Len(received) > n \/ crashed)

\* C5: the Messages channel is closed exactly when the goroutine is over, it
\* is closed at most once, and no send on it follows its closure.
C5_ClosedIffExited ==
  /\ msgClosed <=> taskPc = "exited"
  /\ closeCount = (IF msgClosed THEN 1 ELSE 0)
  /\ ~sendPanic

\* C5 witness: the goroutine is over after delivering a message, and the
\* channel is closed.
C5_Witness ==
  taskPc = "exited" /\ msgClosed /\ Len(received) > 0 /\ stopPc = "returned"

\* C6: a first Stop() begun after the goroutine has ended on its own returns
\* without a panic: the process does not die while the call is under way.
C6_StopAfterExit ==
  (exitedAtStop /\ stopCalls = 1 /\ stopPc # "returned") => ~crashed

\* C7: with no cancellation, the tweets the consumer has received are those
\* of the well-formed lines processed, one each and in the order read, and
\* empty lines have put nothing on the channel.
C7_LinesInOrder ==
  ~doneClosed =>
    /\ Tweets(received) = Expected(Payloads(Processed))
    /\ Len(received) <= Len(NonEmpty(Processed))

\* C7 witness: the lines "", {id 1}, "", {id 2} were read and exactly the
\* messages 1 and 2 were received, in that order.
C7_Witness ==
  /\ ~doneClosed
  /\ read = <<EmptyLine, PayloadLine(1), EmptyLine, PayloadLine(2)>>
  /\ received = <<StreamData(1), StreamData(2)>>

\* C8: nothing is sent on Messages for a line that fails to decode: every
\* value the consumer receives is a decoded message, never nil.
C8_MalformedDropped == \A i \in DOMAIN received : ~received[i].isNil

\* C9: a line that fails to decode does not end the receive loop: the loop
\* goes on to its next iteration on the same response, and the well-formed
\* lines processed after it have been delivered.
C9_MalformedKeepsStream ==
  /\ [][(/\ taskPc = "select" /\ cur.kind = "malformed" /\ ~doneClosed
         /\ taskPc' # taskPc) => taskPc' = "send"]_vars
  /\ [][(taskPc = "send" /\ msg.isNil /\ taskPc' # taskPc) =>
          (taskPc' = "recvLoop" /\ nreq' = nreq /\ open' = open
           /\ ~crashed')]_vars
  /\ [](~doneClosed =>
          \A i, j \in DOMAIN Processed :
            (i < j /\ Processed[i].kind = "malformed"
             /\ Processed[j].kind = "payload") =>
              \E k \in DOMAIN received :
                received[k] = [isNil |-> FALSE, tweet |-> Processed[j].id])

\* C9 witness: on one response a malformed line was read, then a well-formed
\* one, and the message of the latter was received.
C9_Witness ==
  /\ nreq = 1 /\ ~doneClosed
  /\ read = <<MalformedLine, PayloadLine(1)>>
  /\ Len(received) = 2 /\ received[2] = StreamData(1)

\* C10: after a transport failure of client.Do the process does not die of a
\* panic of the goroutine: the failure ends the session in an orderly way.
C10_TransportFailureOrderly == doErr => ~(taskPanic /\ crashed)
\* The switch case of the latest response; 0 before the first response.
LastAnswer == IF answers = <<>> THEN 0 ELSE answers[Len(answers)]

\* The deferred calls of retry and the state after them.
Unwinding == {"deferBodies", "deferDone", "deferClose", "exited"}

\* The goroutine is not blocked: some step of it can happen.
TaskCanStep == ENABLED TaskStep \/ ENABLED DrainStoreBuffer

\* C11: a response whose status is none of 200, 503, 420, 429 makes the
\* goroutine give up: from that response on no request is issued, neither
\* backoff policy advances, nothing is slept and no error is raised; the
\* goroutine goes from the switch straight to its deferred calls with the
\* body closed, is never blocked on the way, and exits with Messages closed.
C11_OtherStatusGivesUp ==
  /\ [][LastAnswer = StatusOther =>
          /\ nreq' = nreq /\ answers' = answers /\ slept' = slept
          /\ expIdx' = expIdx /\ aggIdx' = aggIdx /\ wait' = wait
          /\ taskPanic' = taskPanic /\ doErr' = doErr]_vars
  /\ [](LastAnswer = StatusOther =>
          /\ taskPc \in {"store", "switch"} \cup Unwinding
          /\ taskPc \in Unwinding => nreq \notin open
          /\ taskPc = "exited" => msgClosed /\ ~taskPanic
          /\ (taskPc # "exited" /\ ~crashed) => TaskCanStep)

\* A 404 after a 503 and its sleep: the goroutine has exited, Messages is
\* closed and the only wait slept is the one of the 503.
C11_Witness ==
  /\ answers = <<StatusServiceUnavailable, StatusOther>>
  /\ taskPc = "exited" /\ msgClosed /\ ~crashed
  /\ slept = <<StandardWaits[1]>> /\ expIdx = 1 /\ open = {}

\* Every response so far fell under the 420/429 case, Stop() was not called
\* and no request failed in the transport.
OnlyRateLimited ==
  /\ \A i \in DOMAIN answers : answers[i] = StatusTooManyRequests
  /\ ~doneClosed /\ ~doErr

\* C12: with the aggressive policy [2, 4, stop] and a server that always
\* answers 429, the goroutine issues exactly three requests, sleeps 2 and
\* then 4 between them, does not sleep after the third (the policy's stop),
\* and exits with Messages closed; it is never blocked on the way.
C12_AggressiveExhausts ==
  OnlyRateLimited =>
    /\ Len(answers) <= Len(AggressiveWaits) + 1
    /\ Len(slept) <= Len(AggressiveWaits)
    /\ slept = SubSeq(AggressiveWaits, 1, Len(slept))
    /\ Len(slept) = IF taskPc \in {"sleep", "loop", "do"}
                      THEN Len(answers) ELSE Len(answers) - 1
    /\ taskPc \in Unwinding => Len(answers) = Len(AggressiveWaits) + 1
    /\ taskPc = "exited" => msgClosed /\ ~taskPanic /\ open = {}
    /\ taskPc # "exited" => TaskCanStep

\* Three 429 responses, waits 2 and 4 slept, goroutine exited, Messages
\* closed, Stop() never called.
C12_Witness ==
  /\ OnlyRateLimited /\ Len(answers) = 3 /\ nreq = 3
  /\ slept = <<2, 4>> /\ wait = BackoffStop
  /\ taskPc = "exited" /\ msgClosed /\ ~crashed

\* The number of responses of switch case c since the latest 200 response
\* (since the start when there was none).
SinceOK(c) ==
  LET oks == {i \in DOMAIN answers : answers[i] = StatusOK}
  IN  Cardinality({i \in DOMAIN answers :
                     /\ answers[i] = c
                     /\ \A j \in oks : j < i})

\* The n-th value a policy yields: its n-th wait, the stop sentinel after
\* the last.
PolicyValue(waits, n) == IF n \in DOMAIN waits THEN waits[n] ELSE BackoffStop

\* The calls of next() a policy with these waits has taken after n responses
\* of its kind (it is not called again after it has yielded stop).
PolicyCalls(waits, n) == IF n <= Len(waits) THEN n ELSE Len(waits)

\* C13: each retryable status advances its own policy only. At the switch a
\* 503 leaves the aggressive policy where it was and a 420/429 leaves the
\* standard one; and once the N-th 503 since the latest 200 has been
\* switched on, the wait (the one then slept) is the standard policy's N-th
\* value, whatever 420/429 responses came in between; likewise for 420/429
\* and the aggressive policy.
C13_OwnPolicyOnly ==
  /\ [][(taskPc = "switch" /\ taskPc' # "switch") =>
          /\ status = StatusServiceUnavailable => aggIdx' = aggIdx
          /\ status \in {StatusTooManyRequests, StatusEnhanceYourCalm}
               => expIdx' = expIdx]_vars
  /\ [](taskPc \in {"closeResp", "sleep"} =>
          /\ expIdx = PolicyCalls(StandardWaits,
                                   SinceOK(StatusServiceUnavailable))
          /\ aggIdx = PolicyCalls(AggressiveWaits,
                                   SinceOK(StatusTooManyRequests))
          /\ LastAnswer = StatusServiceUnavailable =>
               wait = PolicyValue(StandardWaits,
                                  SinceOK(StatusServiceUnavailable))
          /\ LastAnswer = StatusTooManyRequests =>
               wait = PolicyValue(AggressiveWaits,
                                  SinceOK(StatusTooManyRequests))
          /\ (taskPc = "sleep" /\ LastAnswer # StatusOK) =>
               slept[Len(slept)] = wait)

\* 503, 429, 503: the second 503 sleeps the standard policy's second value
\* although a 429 came in between, and the 429 slept the aggressive
\* policy's first value.
C13_Witness ==
  /\ answers = <<StatusServiceUnavailable, StatusTooManyRequests,
                 StatusServiceUnavailable>>
  /\ taskPc = "sleep"
  /\ slept = <<StandardWaits[1], AggressiveWaits[1], StandardWaits[2]>>
  /\ expIdx = 2 /\ aggIdx = 1

\* The response before the latest one was a 200.
AfterOK == Len(answers) >= 2 /\ answers[Len(answers) - 1] = StatusOK

\* C14: when the receive loop of a 200 response has ended, both policies
\* are at their start for the rest of that cycle and until the next cycle's
\* switch; so a 503 that follows a 200 cycle yields the standard policy's
\* first value and a 420/429 the aggressive policy's first value.
C14_ResetAfterOK ==
  /\ (LastAnswer = StatusOK /\ taskPc \in {"closeResp", "sleep", "loop", "do"})
       => expIdx = 0 /\ aggIdx = 0
  /\ (AfterOK /\ taskPc \in {"store", "switch"})
       => expIdx = 0 /\ aggIdx = 0
  /\ (AfterOK /\ taskPc \in {"closeResp", "sleep"}) =>
       /\ LastAnswer = StatusServiceUnavailable => wait = StandardWaits[1]
       /\ LastAnswer = StatusTooManyRequests => wait = AggressiveWaits[1]

\* 429, 200, 429: the second 429 has the aggressive policy's first value
\* again, where it would have had the second without the reset.
C14_Witness ==
  /\ answers = <<StatusTooManyRequests, StatusOK, StatusTooManyRequests>>
  /\ taskPc = "sleep" /\ wait = AggressiveWaits[1] /\ aggIdx = 1

C16_BodyClosedEachCycle ==
  /\ Cardinality(open) <= 1 /\ open \subseteq {nreq}
  /\ taskPc \in {"sleep", "loop", "do"} => open = {}
  /\ taskPc \in {"deferDone", "deferClose", "exited"} => open = {}

\* A 200 cycle, a 503 cycle and a cycle with another status, then the exit:
\* three bodies were opened and none is open.
C16_Witness ==
  /\ answers = <<StatusOK, StatusServiceUnavailable, StatusOther>>
  /\ nreq = 3 /\ taskPc = "exited" /\ open = {}

\* The goroutine is in the sleep that follows a 503 or a 420/429 response.
BackoffSleep ==
  /\ taskPc = "sleep"
  /\ LastAnswer \in {StatusServiceUnavailable, StatusTooManyRequests}

\* C17: when done is closed before or during the sleep that follows a 503 or
\* a 420/429, the sleep can end at once (it does not need the interval to
\* elapse); from the sleep the goroutine goes to the loop condition and from
\* there to its deferred calls, issuing no request; and a Stop() that is
\* under way during such a sleep returns.
C17_StopDuringBackoff ==
  /\ []((BackoffSleep /\ doneClosed /\ ~crashed) => ENABLED SleepDone)
  /\ [][(doneClosed /\ (BackoffSleep \/ taskPc = "loop")) =>
          /\ nreq' = nreq /\ answers' = answers /\ doErr' = doErr
          /\ taskPc' \in IF taskPc = "sleep" THEN {"sleep", "loop"}
                                              ELSE {"loop", "deferBodies"}]_vars
  /\ (BackoffSleep /\ stopPc \in {"closeBody", "wait"})
       ~> stopPc = "returned"

\* The goroutine sleeps after a 503; Stop() has closed done and the body
\* and waits for the goroutine, which has issued one request.
C17_Witness ==
  /\ BackoffSleep /\ answers = <<StatusServiceUnavailable>>
  /\ doneClosed /\ stopPc = "wait" /\ group = 1 /\ nreq = 1 /\ ~crashed

\* C18: Stop() reads s.body only after it has closed done, and once Stop()
\* has read s.body (it is past line 101) the goroutine executes no store to
\* s.body (line 126).
C18_NoWriteAfterStopRead ==
  /\ [](stopPc \in {"closeBody", "wait"} => doneClosed)
  /\ [][(stopPc \in {"wait", "returned"}) =>
          bodyBuf' \in {bodyBuf, NoBody}]_vars

\* C19: the wait slept at the end of a cycle was computed in that cycle; a
\* 200 cycle computes none, so the wait slept at its end is zero.
C19_NoLeftoverWait ==
  (taskPc = "sleep" /\ LastAnswer = StatusOK) => slept[Len(slept)] = 0

\* The requests issued so far: the answered ones and the one the transport
\* failed.
Requests == nreq + IF doErr THEN 1 ELSE 0

\* C20: once Stop() has closed done the goroutine issues at most one more
\* request than it had issued at that moment, and from the moment that
\* request is answered nothing is delivered to the consumer any more.
C20_OneLateRequest ==
  /\ [](doneClosed => Requests <= reqAtStop + 1)
  /\ [][(doneClosed /\ nreq > reqAtStop) => received' = received]_vars

\* Stop() closed done after the first request, which had delivered a
\* message, and while the second was under way; the second was answered 200
\* and the goroutine has exited.
C20_Witness ==
  /\ doneClosed /\ reqAtStop = 1 /\ nreq = 2
  /\ answers = <<StatusOK, StatusOK>> /\ received # <<>>
  /\ taskPc = "exited" /\ ~crashed

====
